---- MODULE Spec2Model ----
(***************************************************************************)
(* State-machine model of main.py: a FastAPI service over the PostgreSQL   *)
(* tables "items" and "users".  Every request runs in a client slot, owns  *)
(* one SQLAlchemy session (get_db) and advances one database round trip at *)
(* a time, so that requests interleave between round trips.  Every round   *)
(* trip may fail (connection loss, statement error); the handler's except  *)
(* clauses decide what the caller sees.                                    *)
(*                                                                         *)
(* Not modelled: the created_at column, the ranking of search results and  *)
(* the analytics document (response bodies of those endpoints are left     *)
(* empty; no property below reads them).                                   *)
(***************************************************************************)
EXTENDS Integers, Sequences, FiniteSets, TLC

VARIABLES
    ENVIRONMENT,    \* os.getenv("ENVIRONMENT", "development"), read once at import
    items,          \* committed rows of table "items"
    nextId,         \* next value of the sequence behind items.id
    req             \* per client slot: the request in flight

vars == <<ENVIRONMENT, items, nextId, req>>

----------------------------------------------------------------------------
(* Bounds *)

MaxId == 2          \* the id sequence is exhausted after MaxId values
MaxBatch == 2       \* longest enumerated bulk batch (besides the limit-sized ones)

Clients == {"c1", "c2"}     \* concurrent request slots

----------------------------------------------------------------------------
(* Values *)

None == "None"                          \* Python None / SQL NULL in a text column

MaxBulk == 1000                         \* len(items) > 1000

Range(s) == {s[i] : i \in 1..Len(s)}

Min(a, b) == IF a < b THEN a ELSE b

Max(a, b) == IF a > b THEN a ELSE b

\* ItemCreate: name, optional description
ItemCreate == {[name |-> "a", description |-> None],
               [name |-> "b", description |-> "x"]}

\* Request bodies of POST /items/bulk-create: batches of up to MaxBatch inputs
\* (alternating the two inputs), and batches of exactly MaxBulk and
\* MaxBulk + 1 inputs.
Batch(n) ==
    [i \in 1..n |-> IF i % 2 = 1 THEN [name |-> "a", description |-> None]
                                 ELSE [name |-> "b", description |-> "x"]]

Batches == {Batch(n) : n \in (0..MaxBatch) \cup {MaxBulk, MaxBulk + 1}}

Skips == {0, 1}

Limits == {1, 10}

ItemIds == 1..MaxId

\* Query strings of GET /debug/query, as sequences of characters
QSelect == <<"s", "e", "l", "e", "c", "t", " ", "1">>

QUpper == <<"S", "e", "L", "E", "c", "T", " ", "1">>

QPadded == <<" ", "\n", "s", "e", "l", "e", "c", "t", " ", "1", " ">>

QDelete == <<"d", "e", "l", "e", "t", "e", " ", "f", "r", "o", "m", " ", "i", "t", "e", "m", "s">>

QCommit == <<"c", "o", "m", "m", "i", "t">>

QStacked == QSelect \o <<";">> \o QDelete \o <<";">> \o QCommit

QUncommitted == QSelect \o <<";">> \o QDelete

Queries == {QSelect, QUpper, QPadded, QDelete, QStacked, QUncommitted}

----------------------------------------------------------------------------
(* Python string methods used by debug_raw_query *)

IsSpace(c) == c \in {" ", "\n", "\t"}

RECURSIVE lstrip(_)
lstrip(s) == IF s # <<>> /\ IsSpace(Head(s)) THEN lstrip(Tail(s)) ELSE s

RECURSIVE rstrip(_)
rstrip(s) ==
    IF s # <<>> /\ IsSpace(s[Len(s)]) THEN rstrip(SubSeq(s, 1, Len(s) - 1)) ELSE s

\* str.strip(): leading and trailing whitespace removed
strip(s) == rstrip(lstrip(s))

UpperCase == <<"C", "E", "L", "S", "T">>

LowerCase == <<"c", "e", "l", "s", "t">>

LowerChar(c) ==
    IF \E i \in 1..Len(UpperCase) : UpperCase[i] = c
    THEN LowerCase[CHOOSE i \in 1..Len(UpperCase) : UpperCase[i] = c]
    ELSE c

\* str.lower()
lower(s) == [i \in 1..Len(s) |-> LowerChar(s[i])]

\* str.startswith(prefix)
startswith(s, prefix) ==
    Len(s) >= Len(prefix) /\ SubSeq(s, 1, Len(prefix)) = prefix

Select == <<"s", "e", "l", "e", "c", "t">>

----------------------------------------------------------------------------
(* The session and the database *)

\* A session's open transaction: rows inserted, ids deleted, not yet committed
NoTx == [ins |-> {}, del |-> {}]

\* Item built without its description
Item_without_description(id, item) == [id |-> id, name |-> item.name, description |-> None]

\* Item(**item.dict()) with the id the sequence hands out at flush
Item(id, item) == [id |-> id, name |-> item.name, description |-> item.description]

\* every inserted row given the same id
InsertReturning_same_id(batch, first) ==
    [i \in 1..Len(batch) |-> [id |-> first, name |-> batch[i].name,
                              description |-> batch[i].description]]

\* INSERT ... SELECT unnest(:names), unnest(:descriptions) RETURNING ...:
\* one row per input, in order, ids taken from the sequence starting at first
InsertReturning(batch, first) ==
    [i \in 1..Len(batch) |-> Item(first + i - 1, batch[i])]

\* COMMIT: the transaction's deletes and inserts become the committed table
ApplyTx(tbl, tx) ==
    {row \in tbl : row.id \notin tx.del} \cup tx.ins

\* A query without ORDER BY returns the rows in an order the database picks:
\* every sequence that holds each row of the table once
ScanOrders(tbl) ==
    {rows \in [1..Cardinality(tbl) -> tbl] : Range(rows) = tbl}

\* .offset(skip).limit(limit) applied to the rows of a scan
OffsetLimit(rows, skip, limit) ==
    SubSeq(rows, skip + 1, Min(Len(rows), skip + limit))

\* the query without its filter
QueryItemById_unfiltered(tbl, item_id) ==
    IF tbl = {} THEN <<>> ELSE <<CHOOSE row \in tbl : TRUE>>

\* db.query(Item).filter(Item.id == item_id).first(): <<>> stands for None
QueryItemById(tbl, item_id) ==
    LET found == {row \in tbl : row.id = item_id}
    IN  IF found = {} THEN <<>> ELSE <<CHOOSE row \in found : TRUE>>

\* Table "users": no endpoint inserts into it
users == {}

\* db.query(User).filter(User.id == user_id).first()
QueryUserById(user_id) ==
    LET found == {row \in users : row.id = user_id}
    IN  IF found = {} THEN <<>> ELSE <<CHOOSE row \in found : TRUE>>

\* db.execute(text(query)) hands the text to the server unchanged; the server
\* runs the statements between ';' in order, in the session's transaction.
RECURSIVE Statements(_)
Statements(q) ==
    IF \E i \in 1..Len(q) : q[i] = ";"
    THEN LET k == CHOOSE i \in 1..Len(q) : q[i] = ";" /\ \A j \in 1..(i - 1) : q[j] # ";"
         IN  <<SubSeq(q, 1, k - 1)>> \o Statements(SubSeq(q, k + 1, Len(q)))
    ELSE <<q>>

\* What the server makes of one statement; anything else is a syntax error
StatementKind(stmt) ==
    LET t == lower(strip(stmt))
    IN  CASE t = QSelect -> "select"
          [] t = QDelete -> "delete"
          [] t = QCommit -> "commit"
          [] OTHER -> "error"

RECURSIVE RunStatements(_, _)
RunStatements(stmts, st) ==
    IF stmts = <<>> THEN st
    ELSE LET k == StatementKind(Head(stmts))
             nxt == CASE k = "select" -> [st EXCEPT !.rows = TRUE]
                      [] k = "delete" ->
                            [st EXCEPT !.tx = [ins |-> {},
                                               del |-> st.tx.del \cup {row.id : row \in st.tbl}],
                                       !.rows = FALSE]
                      [] k = "commit" ->
                            [st EXCEPT !.tbl = ApplyTx(st.tbl, st.tx), !.tx = NoTx,
                                       !.rows = FALSE]
                      [] OTHER -> st
         IN  RunStatements(Tail(stmts), nxt)

\* The outcome of executing a query text: ok is FALSE on a syntax error (then
\* nothing ran); rows tells whether the last statement returns rows.
ExecuteText(tbl, tx, q) ==
    LET stmts == Statements(q)
    IN  IF \E i \in 1..Len(stmts) : StatementKind(stmts[i]) = "error"
        THEN [ok |-> FALSE, tbl |-> tbl, tx |-> tx, rows |-> FALSE]
        ELSE RunStatements(stmts, [ok |-> TRUE, tbl |-> tbl, tx |-> tx, rows |-> FALSE])

----------------------------------------------------------------------------
(* Requests *)

\* A free client slot.  ep: endpoint; arg: its input; pc: the handler's next
\* step; db: the session get_db made; tx: that session's open transaction;
\* status/how/body/count: the outcome (how the handler was left, the HTTP
\* status, the rows in the response, the number in the bulk message).
\* History, read by the properties only: snap is the committed table the
\* list query read, wrote the rows the handler's INSERT produced, ran whether
\* the handler sent a statement to the database.
Idle == [ep |-> "none", arg |-> <<>>, pc |-> "idle", db |-> "none", tx |-> NoTx,
         status |-> 0, how |-> "none", body |-> <<>>, count |-> 0,
         snap |-> {}, wrote |-> <<>>, ran |-> FALSE]

\* return value: the framework answers 200
Return(q, body) ==
    [q EXCEPT !.pc = "exit", !.status = 200, !.how = "return", !.body = body]

\* raise HTTPException(status_code=status, ...)
Raise(q, status) ==
    [q EXCEPT !.pc = "exit", !.status = status, !.how = "http_error"]

\* an exception no handler catches: the framework answers 500
Uncaught(q) ==
    [q EXCEPT !.pc = "exit", !.status = 500, !.how = "exception"]

\* db.rollback()
rollback(q) == [q EXCEPT !.tx = NoTx]

\* get_db up to the yield: db = SessionLocal(); the handler is entered
Called(ep, arg, pc) == [Idle EXCEPT !.ep = ep, !.arg = arg, !.pc = pc, !.db = "open"]

StartRequest(r, ep, arg, pc) ==
    /\ req[r].pc = "idle"
    /\ req' = [req EXCEPT ![r] = Called(ep, arg, pc)]
    /\ UNCHANGED <<ENVIRONMENT, items, nextId>>

get_db(r) ==
    \/ StartRequest(r, "health", <<>>, "health_check")
    \/ \E item \in ItemCreate : StartRequest(r, "create", item, "create_item_orm")
    \/ \E skip \in Skips, limit \in Limits :
          StartRequest(r, "list", [skip |-> skip, limit |-> limit], "list_items_orm")
    \/ \E item_id \in ItemIds : StartRequest(r, "get", item_id, "get_item_orm")
    \/ StartRequest(r, "search", <<>>, "search_items_raw_sql")
    \/ StartRequest(r, "analytics", <<>>, "get_items_analytics_raw_sql")
    \/ \E user_id \in {1} : StartRequest(r, "user_items", user_id, "get_user_items_hybrid")

\* get_db with db.close() after the yield, outside any finally
get_db_without_finally(db, how) == IF how = "return" THEN "closed" ELSE db

\* get_db after the yield.  The finally clause runs however the handler was left.
get_db_finally(db, how) == "closed"

\* db.close() ends the session; what it had not committed is rolled back.
\* The request is over: only the way the handler was left is kept.
get_db_exit(r) ==
    /\ req[r].pc = "exit"
    /\ req' = [req EXCEPT ![r] = [Idle EXCEPT !.pc = "done", !.how = req[r].how,
                                  !.db = get_db_finally(req[r].db, req[r].how)]]
    /\ UNCHANGED <<ENVIRONMENT, items, nextId>>

\* The response is out and the slot serves the next request
NextRequest(r) ==
    /\ req[r].pc = "done"
    /\ req' = [req EXCEPT ![r] = Idle]
    /\ UNCHANGED <<ENVIRONMENT, items, nextId>>

----------------------------------------------------------------------------
(* GET /health *)

health_check(r) ==
    /\ req[r].pc = "health_check"
    /\ \/ req' = [req EXCEPT ![r] = Return([@ EXCEPT !.ran = TRUE], <<>>)]
       \/ req' = [req EXCEPT ![r] = Raise([@ EXCEPT !.ran = TRUE], 503)]
    /\ UNCHANGED <<ENVIRONMENT, items, nextId>>

----------------------------------------------------------------------------
(* POST /items/ *)

\* db.add(db_item); db.commit(): the flush sends the INSERT, which takes the
\* next id of the sequence, then COMMIT
create_item_orm(r) ==
    LET q == [req[r] EXCEPT !.ran = TRUE]
        row == Item(nextId, q.arg)
    IN  /\ req[r].pc = "create_item_orm"
        /\ \/ \* the INSERT fails (also: the sequence is exhausted)
              /\ req' = [req EXCEPT ![r] = Raise(rollback(q), 500)]
              /\ UNCHANGED <<items, nextId>>
           \/ \* the INSERT took an id, COMMIT fails
              /\ nextId <= MaxId
              /\ nextId' = nextId + 1
              /\ req' = [req EXCEPT ![r] = Raise(rollback(q), 500)]
              /\ UNCHANGED items
           \/ \* committed
              /\ nextId <= MaxId
              /\ nextId' = nextId + 1
              /\ items' = ApplyTx(items, [ins |-> {row}, del |-> {}])
              /\ req' = [req EXCEPT ![r] = [q EXCEPT !.pc = "refresh", !.wrote = <<row>>]]
        /\ UNCHANGED ENVIRONMENT

\* db.refresh(db_item); return db_item
refresh(r) ==
    LET q == req[r]
        row == QueryItemById(items, q.wrote[1].id)
    IN  /\ q.pc = "refresh"
        /\ \/ \* the SELECT fails
              req' = [req EXCEPT ![r] = Raise(rollback(q), 500)]
           \/ \* the SELECT finds no row: refresh raises InvalidRequestError
              /\ row = <<>>
              /\ req' = [req EXCEPT ![r] = Raise(rollback(q), 500)]
           \/ /\ row # <<>>
              /\ req' = [req EXCEPT ![r] = Return(q, row)]
        /\ UNCHANGED <<ENVIRONMENT, items, nextId>>

----------------------------------------------------------------------------
(* GET /items/ and GET /items/{item_id} *)

list_items_orm(r) ==
    LET q == [req[r] EXCEPT !.ran = TRUE, !.snap = items]
    IN  /\ req[r].pc = "list_items_orm"
        /\ \/ req' = [req EXCEPT ![r] = Uncaught(q)]
           \/ \E rows \in ScanOrders(items) :
                 req' = [req EXCEPT ![r] =
                            Return(q, OffsetLimit(rows, q.arg.skip, q.arg.limit))]
        /\ UNCHANGED <<ENVIRONMENT, items, nextId>>

get_item_orm(r) ==
    LET q == [req[r] EXCEPT !.ran = TRUE]
        item == QueryItemById(items, q.arg)
    IN  /\ req[r].pc = "get_item_orm"
        /\ \/ req' = [req EXCEPT ![r] = Uncaught(q)]
           \/ /\ item = <<>>
              /\ req' = [req EXCEPT ![r] = Raise(q, 404)]
           \/ /\ item # <<>>
              /\ req' = [req EXCEPT ![r] = Return(q, item)]
        /\ UNCHANGED <<ENVIRONMENT, items, nextId>>

----------------------------------------------------------------------------
(* GET /items/search/{query}, GET /analytics/items-summary *)

search_items_raw_sql(r) ==
    /\ req[r].pc = "search_items_raw_sql"
    /\ \/ req' = [req EXCEPT ![r] = Return([@ EXCEPT !.ran = TRUE], <<>>)]
       \/ req' = [req EXCEPT ![r] = Raise([@ EXCEPT !.ran = TRUE], 500)]
    /\ UNCHANGED <<ENVIRONMENT, items, nextId>>

get_items_analytics_raw_sql(r) ==
    /\ req[r].pc = "get_items_analytics_raw_sql"
    /\ \/ req' = [req EXCEPT ![r] = Return([@ EXCEPT !.ran = TRUE], <<>>)]
       \/ req' = [req EXCEPT ![r] = Raise([@ EXCEPT !.ran = TRUE], 500)]
    /\ UNCHANGED <<ENVIRONMENT, items, nextId>>

----------------------------------------------------------------------------
(* POST /items/bulk-create *)

\* the limit off by one
invalid_item_count_off_by_one(batch) == Len(batch) = 0 \/ Len(batch) >= MaxBulk

\* not items or len(items) > 1000
invalid_item_count(batch) == Len(batch) = 0 \/ Len(batch) > MaxBulk

\* The request arrives and the handler runs up to its first statement
bulk_create_items_raw_sql(r) ==
    /\ req[r].pc = "idle"
    /\ \E batch \in Batches :
          \/ /\ invalid_item_count(batch)
             /\ req' = [req EXCEPT ![r] = Raise(Called("bulk", batch, "idle"), 400)]
          \/ /\ ~invalid_item_count(batch)
             /\ req' = [req EXCEPT ![r] = Called("bulk", batch, "bulk_execute")]
    /\ UNCHANGED <<ENVIRONMENT, items, nextId>>

\* result = db.execute(sql, {...})
bulk_execute(r) ==
    LET q == [req[r] EXCEPT !.ran = TRUE]
        n == Len(q.arg)
        rows == InsertReturning(q.arg, nextId)
    IN  /\ req[r].pc = "bulk_execute"
        /\ \/ \* the INSERT fails (also: the sequence is exhausted)
              /\ req' = [req EXCEPT ![r] = Raise(rollback(q), 500)]
              /\ UNCHANGED nextId
           \/ /\ nextId + n - 1 <= MaxId
              /\ nextId' = nextId + n
              /\ req' = [req EXCEPT ![r] =
                            [q EXCEPT !.pc = "bulk_commit", !.wrote = rows,
                                      !.tx.ins = @ \cup Range(rows)]]
        /\ UNCHANGED <<ENVIRONMENT, items>>

\* db.commit()
bulk_commit(r) ==
    LET q == req[r]
    IN  /\ q.pc = "bulk_commit"
        /\ \/ /\ req' = [req EXCEPT ![r] = Raise(rollback(q), 500)]
              /\ UNCHANGED items
           \/ /\ items' = ApplyTx(items, q.tx)
              /\ req' = [req EXCEPT ![r] = [q EXCEPT !.pc = "bulk_read", !.tx = NoTx]]
        /\ UNCHANGED <<ENVIRONMENT, nextId>>

\* for row in result: created_items.append({...}); return {message, items}
bulk_read(r) ==
    LET q == req[r]
    IN  /\ q.pc = "bulk_read"
        /\ \/ \* reading the result raises
              req' = [req EXCEPT ![r] = Raise(rollback(q), 500)]
           \/ req' = [req EXCEPT ![r] = [Return(q, q.wrote) EXCEPT !.count = Len(q.wrote)]]
        /\ UNCHANGED <<ENVIRONMENT, items, nextId>>

----------------------------------------------------------------------------
(* GET /users/{user_id}/items *)

\* The user lookup is outside any try; the items query names the table
\* user_items, which the schema does not have, so it always fails.
get_user_items_hybrid(r) ==
    LET q == [req[r] EXCEPT !.ran = TRUE]
        user == QueryUserById(q.arg)
    IN  /\ req[r].pc = "get_user_items_hybrid"
        /\ \/ req' = [req EXCEPT ![r] = Uncaught(q)]
           \/ req' = [req EXCEPT ![r] = IF user = <<>> THEN Raise(q, 404) ELSE Raise(q, 500)]
        /\ UNCHANGED <<ENVIRONMENT, items, nextId>>

----------------------------------------------------------------------------
(* GET /debug/query *)

\* the check without lower()
select_only_case_sensitive(query) == startswith(strip(query), Select)

\* query.strip().lower().startswith('select')
select_only(query) == startswith(lower(strip(query)), Select)

\* The request arrives and the handler runs up to the call of execute_raw_query
debug_raw_query(r) ==
    /\ req[r].pc = "idle"
    /\ \E query \in Queries :
          \/ /\ ENVIRONMENT # "development"
             /\ req' = [req EXCEPT ![r] = Raise(Called("debug", query, "idle"), 403)]
          \/ /\ ENVIRONMENT = "development"
             /\ ~select_only(query)
             /\ req' = [req EXCEPT ![r] = Raise(Called("debug", query, "idle"), 400)]
          \/ /\ ENVIRONMENT = "development"
             /\ select_only(query)
             /\ req' = [req EXCEPT ![r] = Called("debug", query, "execute_raw_query")]
    /\ UNCHANGED <<ENVIRONMENT, items, nextId>>

\* result = db.execute(text(query), {}); [dict(row) for row in result];
\* whatever it raises comes back as 400
execute_raw_query(r) ==
    LET q == [req[r] EXCEPT !.ran = TRUE]
        out == ExecuteText(items, q.tx, q.arg)
    IN  /\ req[r].pc = "execute_raw_query"
        /\ \/ \* the statement does not reach the server
              /\ req' = [req EXCEPT ![r] = Raise(q, 400)]
              /\ UNCHANGED items
           \/ \* the server ran the text
              /\ items' = out.tbl
              /\ req' = [req EXCEPT ![r] =
                            IF out.ok /\ out.rows
                            THEN Return([q EXCEPT !.tx = out.tx], <<>>)
                            ELSE Raise([q EXCEPT !.tx = out.tx], 400)]
           \/ \* the server ran the text, converting the rows raises
              /\ out.ok /\ out.rows
              /\ items' = out.tbl
              /\ req' = [req EXCEPT ![r] = Raise([q EXCEPT !.tx = out.tx], 400)]
        /\ UNCHANGED <<ENVIRONMENT, nextId>>

----------------------------------------------------------------------------
(* Specification *)

Init ==
    /\ ENVIRONMENT \in {"development", "production"}
    /\ items = {}
    /\ nextId = 1
    /\ req = [r \in Clients |-> Idle]

Next ==
    \E r \in Clients :
        \/ get_db(r)
        \/ get_db_exit(r)
        \/ NextRequest(r)
        \/ health_check(r)
        \/ create_item_orm(r)
        \/ refresh(r)
        \/ list_items_orm(r)
        \/ get_item_orm(r)
        \/ search_items_raw_sql(r)
        \/ get_items_analytics_raw_sql(r)
        \/ bulk_create_items_raw_sql(r)
        \/ bulk_execute(r)
        \/ bulk_commit(r)
        \/ bulk_read(r)
        \/ get_user_items_hybrid(r)
        \/ debug_raw_query(r)
        \/ execute_raw_query(r)

Spec == Init /\ [][Next]_vars

----------------------------------------------------------------------------
(* Properties *)

Ids(rows) == {row.id : row \in rows}

\* C1: a request that has completed, however its handler was left (return,
\* HTTPException, uncaught exception), has its session closed; a free slot
\* holds no open session.
C1_SessionClosed ==
    \A r \in Clients :
        /\ req[r].pc = "done" => req[r].db = "closed"
        /\ req[r].pc = "idle" => req[r].db = "none"

\* a request left by an uncaught exception has completed with its session closed
C1_Witness ==
    \E r \in Clients :
        req[r].pc = "done" /\ req[r].how = "exception" /\ req[r].db = "closed"

\* C2: bulk_create_items is all-or-nothing: a call that ends in 500 has
\* persisted none of its rows, and the rows of a batch are never persisted
\* in part.
C2_AllOrNothing ==
    \A r \in Clients :
        req[r].ep = "bulk" =>
            /\ req[r].status = 500 => Range(req[r].wrote) \cap items = {}
            /\ Range(req[r].wrote) \cap items # {} => Range(req[r].wrote) \subseteq items

\* C3: a batch of 0 or of more than 1000 items is answered 400 with no
\* statement sent and nothing staged or written; a batch of 1 to 1000 items
\* is never answered 400.
C3_ItemCount ==
    \A r \in Clients :
        req[r].ep = "bulk" =>
            IF Len(req[r].arg) = 0 \/ Len(req[r].arg) > 1000
            THEN /\ req[r].pc = "exit" /\ req[r].status = 400
                 /\ ~req[r].ran /\ req[r].wrote = <<>> /\ req[r].tx = NoTx
            ELSE req[r].status # 400

\* a batch of 1001 is rejected while a batch of 1000 has passed the check
C3_Witness ==
    \E r1, r2 \in Clients :
        /\ req[r1].ep = "bulk" /\ Len(req[r1].arg) = 1001 /\ req[r1].status = 400
        /\ req[r2].ep = "bulk" /\ Len(req[r2].arg) = 1000 /\ req[r2].pc = "bulk_execute"

\* C4 as stated: the query is executed only in development and only when it
\* begins with "select" (case-insensitive); outside development it is
\* answered 403, in development a query not beginning with "select" is
\* answered 400, and in both cases nothing is executed.
C4_BeginsWithSelect ==
    \A r \in Clients :
        req[r].ep = "debug" =>
            LET sel == startswith(lower(req[r].arg), Select)
                dev == ENVIRONMENT = "development"
            IN  /\ req[r].ran => dev /\ sel
                /\ ~dev => req[r].pc = "exit" /\ req[r].status = 403 /\ ~req[r].ran
                /\ dev /\ ~sel => req[r].status \in {0, 400} /\ ~req[r].ran

\* C4 amended: as C4, with "begins with select" read after the query's
\* leading and trailing whitespace is removed; and in development such a
\* query is handed to the database.
C4_BeginsWithSelectStripped ==
    \A r \in Clients :
        req[r].ep = "debug" =>
            LET sel == startswith(lower(rstrip(lstrip(req[r].arg))), Select)
                dev == ENVIRONMENT = "development"
            IN  /\ req[r].ran => dev /\ sel
                /\ ~dev => req[r].pc = "exit" /\ req[r].status = 403 /\ ~req[r].ran
                /\ dev /\ ~sel => req[r].pc = "exit" /\ req[r].status = 400 /\ ~req[r].ran
                /\ dev /\ sel /\ ~req[r].ran => req[r].pc = "execute_raw_query"

\* a query with leading whitespace and mixed case has been executed
C4_Witness ==
    \E r \in Clients :
        /\ req[r].ep = "debug" /\ req[r].arg = QPadded
        /\ req[r].ran /\ req[r].status = 200

C6_Pagination ==
    /\ \A r \in Clients :
          (req[r].ep = "list" /\ req[r].status = 200) =>
              Len(req[r].body) =
                  Min(req[r].arg.limit, Max(0, Cardinality(req[r].snap) - req[r].arg.skip))
    /\ \A r1, r2 \in Clients :
          ( /\ req[r1].ep = "list" /\ req[r1].status = 200
            /\ req[r2].ep = "list" /\ req[r2].status = 200
            /\ req[r1].snap = req[r2].snap
            /\ req[r1].arg.skip = 0
            /\ req[r2].arg.skip = req[r1].arg.limit
            /\ req[r2].arg.limit = req[r1].arg.limit )
          => Range(req[r1].body) \cap Range(req[r2].body) = {}

\* C7: the INSERT of a bulk call gives its n rows ids that are pairwise
\* distinct and held by no stored item, its commit grows the table by exactly
\* those n rows, and its response holds those n rows, in input order, with
\* the count n.
C7_BulkCreated ==
    [][\A r \in Clients :
          /\ (req[r].pc = "bulk_execute" /\ req'[r].pc = "bulk_commit") =>
                LET rows == req'[r].wrote
                IN  /\ Len(rows) = Len(req[r].arg)
                    /\ \A i, j \in 1..Len(rows) : rows[i].id = rows[j].id => i = j
                    /\ Ids(Range(rows)) \cap Ids(items) = {}
          /\ (req[r].pc = "bulk_commit" /\ req'[r].pc = "bulk_read") =>
                /\ items' = items \cup Range(req[r].wrote)
                /\ Cardinality(items') = Cardinality(items) + Len(req[r].arg)
          /\ (req[r].pc = "bulk_read" /\ req'[r].status = 200) =>
                LET body == req'[r].body
                    n == Len(req[r].arg)
                IN  /\ Len(body) = n /\ req'[r].count = n /\ n \in 1..1000
                    /\ body = req[r].wrote
                    /\ \A i, j \in 1..n : body[i].id = body[j].id => i = j
                    /\ \A i \in 1..n : /\ body[i].name = req[r].arg[i].name
                                       /\ body[i].description = req[r].arg[i].description]_vars

\* a bulk call of two items has returned
C7_Witness ==
    \E r \in Clients :
        /\ req[r].ep = "bulk" /\ req[r].status = 200
        /\ Len(req[r].body) = 2 /\ Range(req[r].body) \subseteq items

\* C8: get_item leaves the table as it is; it answers 200 with the stored
\* record of the requested id when there is one, 404 when there is none, and
\* nothing else unless the query itself fails.
C8_GetItem ==
    [][\A r \in Clients :
          (req[r].pc = "get_item_orm" /\ req'[r].pc # "get_item_orm") =>
              LET stored == {row \in items : row.id = req[r].arg}
              IN  /\ items' = items
                  /\ req'[r].status \in {200, 404, 500}
                  /\ req'[r].status = 500 => req'[r].how = "exception"
                  /\ req'[r].status = 200 =>
                        /\ Len(req'[r].body) = 1
                        /\ req'[r].body[1].id = req[r].arg
                        /\ req'[r].body[1] \in items
                  /\ req'[r].status = 404 => stored = {}
                  /\ (stored = {} /\ req'[r].how # "exception") => req'[r].status = 404]_vars

\* get_item has returned a record while another record is stored too
C8_Witness ==
    \E r \in Clients :
        /\ req[r].ep = "get" /\ req[r].status = 200
        /\ req[r].body[1].id = req[r].arg /\ Cardinality(items) = 2

\* C9: a create_item call that ends in 500 has left no row of its own in the
\* table.
C9_CreateRolledBack ==
    \A r \in Clients :
        (req[r].ep = "create" /\ req[r].status = 500) =>
            Range(req[r].wrote) \cap items = {}

\* C10: ids are unique; a stored row stays as it is and stays stored; and a
\* step of a request to any endpoint but create_item and bulk_create_items
\* leaves the table unchanged.
C10_ItemsStable ==
    [][/\ \A a, b \in items' : a.id = b.id => a = b
       /\ items \subseteq items'
       /\ \A r \in Clients :
             ( /\ req'[r].pc # req[r].pc
               /\ req[r].ep \notin {"create", "bulk"}
               /\ req'[r].ep \notin {"create", "bulk"} )
             => items' = items]_vars

====
